---- MODULE Spec2Model ----
(***************************************************************************)
(* GourmetGuide AI: the Restaurant Finder (components/RestaurantFinder.tsx) *)
(* and the Chat Assistant (components/ChatBot.tsx) as state machines.      *)
(*                                                                         *)
(* A state of the model is a committed React state.  React 19 batches all  *)
(* state updates made in one synchronous run of a handler or of a promise  *)
(* continuation, so each action is one such run: the part of a handler up  *)
(* to its first await, or the part between two awaits.                     *)
(***************************************************************************)
EXTENDS Integers, Sequences, FiniteSets, TLC

(* ------------------------------ bounds -------------------------------- *)

\* grounded-search calls issued in one run
MaxSearches == 3
\* device location requests outstanding at once (direct invocation only)
MaxGeo == 2
\* distinct positions the device may report
NumCoords == 2
\* streaming calls made plus chunks received in one run
MaxTraffic == 4
\* milliseconds the wall clock advances in one run
MaxClock == 1
\* reviews submitted in one run
MaxReviews == 2
\* grounding chunks in one response of the provider
MaxChunks == 3
\* reviews left in localStorage by earlier sessions
MaxSaved == 3

VARIABLES
    \* --- RestaurantFinder state (RestaurantFinder.tsx:113-149)
    location,        \* Coordinates | null
    locationStatus,  \* 'idle' | 'loading' | 'success' | 'error'
    isSearching,     \* a search is in progress
    result,          \* RestaurantResult | null
    error,           \* string | null
    \* --- environment of the RestaurantFinder
    geoSupported,    \* navigator.geolocation is present
    geoPending,      \* getCurrentPosition requests whose callback has not run
    searchCalls,     \* findRestaurants calls made so far, by call number
    inFlight,        \* call numbers of findRestaurants promises not yet settled
    prompts,         \* the prompt findRestaurants built in each call
    \* --- RestaurantFinder state: filters (RestaurantFinder.tsx:127-136)
    dietary,         \* DietaryRestriction[]
    amenities,       \* Amenity[]
    toggled,         \* the last two toggleFilter calls: item, list, value before
    cuisine,         \* the selected CuisineType
    price,           \* the selected PriceRange
    customDish,      \* the dish query
    \* --- RestaurantFinder state: reviews (RestaurantFinder.tsx:157-176)
    reviews,         \* Review[]
    reviewModalOpen, \* the review modal is shown
    selectedRestaurant, \* {title, uri} | null
    newRating,       \* the rating being entered
    newComment,      \* the comment being entered
    \* --- environment of the reviews
    stored,          \* localStorage: the text under 'restaurant_reviews'
    otherTab,        \* the state of a second instance of the page, if any
    \* --- ChatBot state (ChatBot.tsx)
    isOpen,          \* the chat window is visible
    input,           \* the text in the input field
    messages,        \* ChatMessage[]
    isLoading,       \* a send is in progress
    \* --- Gemini service module state (services/gemini.ts)
    chatSession,     \* Chat | null
    sessionsCreated, \* ai.chats.create calls made so far
    \* --- environment of the ChatBot
    exchanges,       \* the runs of handleSend that reached the service
    now,             \* the last value Date.now() returned, in ms since mount
    \* --- the handler, callback or continuation that ran last
    op

finderVars == <<location, locationStatus, isSearching, result, error,
                geoSupported, geoPending, searchCalls, inFlight, prompts>>

selectionVars == <<dietary, amenities, toggled, cuisine, price, customDish>>

reviewVars == <<reviews, reviewModalOpen, selectedRestaurant, newRating,
                newComment, stored>>

chatVars == <<isOpen, input, messages, isLoading, chatSession,
              sessionsCreated, exchanges, now>>

vars == <<location, locationStatus, isSearching, result, error,
          geoSupported, geoPending, searchCalls, inFlight, prompts,
          dietary, amenities, toggled, cuisine, price, customDish,
          reviews, reviewModalOpen, selectedRestaurant, newRating,
          newComment, stored, otherTab,
          isOpen, input, messages, isLoading, chatSession,
          sessionsCreated, exchanges, now, op>>

(* ------------------------------ values -------------------------------- *)

\* null of an object-typed state (location, result)
Null == [null |-> TRUE]
\* null of the error state
NoError == "<null>"

Coords == {[latitude |-> c, longitude |-> c] : c \in 1..NumCoords}

MsgGeoUnsupported == "Geolocation is not supported by your browser."
MsgGeoFailed == "Unable to retrieve your location. Please check permissions."
MsgEnableLocation == "Please enable location services to find restaurants nearby."
MsgFetchFailed == "Failed to fetch recommendations. Please try again later."

\* the text the provider answers with when the model only checks which
\* request a result belongs to; it comes with no grounding metadata
PlainResponse == [text |-> "summary"]

\* findRestaurants after the await: the RestaurantResult made of a response
\* (response.text || "No details found.", the chunks of the first candidate
\* || []), with the request it answers
ResultFor(id, response) ==
    [call |-> id, coords |-> searchCalls[id],
     text |-> IF "text" \in DOMAIN response /\ response.text # ""
                THEN response.text ELSE "No details found.",
     groundingChunks |-> IF "groundingChunks" \in DOMAIN response
                           THEN response.groundingChunks ELSE <<>>]

\* what the provider answers to call number id: the result of that request
ResultOf(id) == ResultFor(id, PlainResponse)

(* --------------------------- UI widgets ------------------------------- *)

\* a Button that drops the loading flag from its disabled attribute
ButtonDisabled_LoadingIgnored(loading, disabled) == disabled

\* UI.tsx Button: disabled={isLoading || disabled}
ButtonDisabled(loading, disabled) == loading \/ disabled

\* a search button that is not given the isLoading prop
SearchButtonDisabled_NoLoadingProp == ButtonDisabled(FALSE, location = Null)

\* the search button: isLoading={isSearching} disabled={!location}
SearchButtonDisabled == ButtonDisabled(isSearching, location = Null)

\* a location button that is never disabled
LocationButtonDisabled_Never == ButtonDisabled(FALSE, FALSE)

\* the location button: disabled={locationStatus === 'loading'}, no isLoading
LocationButtonDisabled == ButtonDisabled(FALSE, locationStatus = "loading")

(* ------------------------- location services -------------------------- *)

\* requestLocation without the early return of the unsupported branch
requestLocation_NoSupportCheck ==
    /\ locationStatus' = "loading"
    /\ geoPending < MaxGeo
    /\ geoPending' = geoPending + 1
    /\ op' = "requestLocation"
    /\ UNCHANGED <<location, isSearching, result, error, geoSupported,
                   searchCalls, prompts, inFlight>>
    /\ UNCHANGED <<selectionVars, otherTab, reviewVars, chatVars>>

\* requestLocation: setLocationStatus('loading'); without navigator.geolocation
\* setLocationStatus('error') and setError in the same run, and return;
\* otherwise getCurrentPosition is called and its callback is pending
requestLocation ==
    /\ op' = "requestLocation"
    /\ IF ~geoSupported
         THEN /\ locationStatus' = "error"
              /\ error' = MsgGeoUnsupported
              /\ UNCHANGED geoPending
         ELSE /\ geoPending < MaxGeo
              /\ locationStatus' = "loading"
              /\ geoPending' = geoPending + 1
              /\ UNCHANGED error
    /\ UNCHANGED <<location, isSearching, result, geoSupported,
                   searchCalls, prompts, inFlight>>
    /\ UNCHANGED <<selectionVars, otherTab, reviewVars, chatVars>>

\* the success callback of getCurrentPosition
GeoSuccess(c) ==
    /\ geoPending > 0
    /\ geoPending' = geoPending - 1
    /\ location' = c
    /\ locationStatus' = "success"
    /\ error' = NoError
    /\ op' = "geoSuccess"
    /\ UNCHANGED <<isSearching, result, geoSupported, searchCalls, prompts, inFlight>>
    /\ UNCHANGED <<selectionVars, otherTab, reviewVars, chatVars>>

\* an error callback that also forgets the stored coordinates
GeoError_ClearsLocation ==
    /\ geoPending > 0
    /\ geoPending' = geoPending - 1
    /\ location' = Null
    /\ locationStatus' = "error"
    /\ error' = MsgGeoFailed
    /\ op' = "geoError"
    /\ UNCHANGED <<isSearching, result, geoSupported, searchCalls, prompts, inFlight>>
    /\ UNCHANGED <<selectionVars, otherTab, reviewVars, chatVars>>

\* the error callback of getCurrentPosition
GeoError ==
    /\ geoPending > 0
    /\ geoPending' = geoPending - 1
    /\ locationStatus' = "error"
    /\ error' = MsgGeoFailed
    /\ op' = "geoError"
    /\ UNCHANGED <<location, isSearching, result, geoSupported,
                   searchCalls, prompts, inFlight>>
    /\ UNCHANGED <<selectionVars, otherTab, reviewVars, chatVars>>

(* ------------------- the service: findRestaurants -------------------- *)

\* types.ts: enum CuisineType
CuisineType == {"Any Cuisine", "Italian", "Mexican", "Chinese", "Japanese",
                "Indian", "American", "French", "Thai", "Mediterranean",
                "Vegan"}

\* types.ts: enum PriceRange
PriceRange == {"Any Price", "$", "$$", "$$$", "$$$$"}

\* Array.prototype.join: the items with the separator between neighbours
RECURSIVE join(_, _)
join(list, separator) ==
    IF list = <<>> THEN <<>>
    ELSE IF Len(list) = 1 THEN <<list[1]>>
    ELSE <<list[1], separator>> \o join(Tail(list), separator)

DietaryClause == "The user specifically requires these dietary options: "
AmenitiesClause == "The user specifically requires these amenities: "
DishClause == "The user is interested in these specific dishes: "
ClauseEnd == ". "

\* a filterText that puts the dish clause first
filterText_DishFirst(dietaryArg, amenitiesArg, dishes) ==
    (IF dishes # <<>>
       THEN <<DishClause>> \o dishes \o <<ClauseEnd>> ELSE <<>>)
    \o (IF Len(dietaryArg) > 0
          THEN <<DietaryClause>> \o join(dietaryArg, ", ") \o <<ClauseEnd>>
          ELSE <<>>)
    \o (IF Len(amenitiesArg) > 0
          THEN <<AmenitiesClause>> \o join(amenitiesArg, ", ") \o <<ClauseEnd>>
          ELSE <<>>)

\* findRestaurants: filterText, one clause per filter that is given; the
\* dish text is used when it is truthy, that is when it is not ''
filterText(dietaryArg, amenitiesArg, dishes) ==
    (IF Len(dietaryArg) > 0
       THEN <<DietaryClause>> \o join(dietaryArg, ", ") \o <<ClauseEnd>>
       ELSE <<>>)
    \o (IF Len(amenitiesArg) > 0
          THEN <<AmenitiesClause>> \o join(amenitiesArg, ", ") \o <<ClauseEnd>>
          ELSE <<>>)
    \o (IF dishes # <<>>
          THEN <<DishClause>> \o dishes \o <<ClauseEnd>> ELSE <<>>)

PromptHead == "Find top-rated "
PromptPlace == " restaurants near me that are in the "
PromptPrice == " price range. \n  "
PromptTail == "\n  Provide a helpful summary of the top recommendations, mentioning their ratings, specific matches for the user's requirements, and what they are known for.\n  Do not invent places. Only use the Google Maps tool to find real places."

\* findRestaurants: the prompt. A fixed text and an enumeration value are
\* one token each, the dish text is the sequence of its characters
prompt(cuisineArg, priceArg, dietaryArg, amenitiesArg, dishes) ==
    <<PromptHead>>
    \o (IF cuisineArg = "Any Cuisine" THEN <<>> ELSE <<cuisineArg>>)
    \o <<PromptPlace>>
    \o <<IF priceArg = "Any Price" THEN "any" ELSE priceArg>>
    \o <<PromptPrice>>
    \o filterText(dietaryArg, amenitiesArg, dishes)
    \o <<PromptTail>>

(* ------------------------------ search -------------------------------- *)

\* handleSearch that keeps the previous result while the new search runs
handleSearch_KeepsResult ==
    /\ op' = "handleSearch"
    /\ IF location = Null
         THEN /\ error' = MsgEnableLocation
              /\ UNCHANGED <<isSearching, result, searchCalls, prompts, inFlight>>
         ELSE /\ Len(searchCalls) < MaxSearches
              /\ isSearching' = TRUE
              /\ error' = NoError
              /\ UNCHANGED result
              /\ searchCalls' = Append(searchCalls, location)
              /\ prompts' = Append(prompts, prompt(cuisine, price, dietary,
                                                   amenities, customDish))
              /\ inFlight' = inFlight \cup {Len(searchCalls) + 1}
    /\ UNCHANGED <<location, locationStatus, geoSupported, geoPending>>
    /\ UNCHANGED <<selectionVars, otherTab, reviewVars, chatVars>>

\* handleSearch that calls the service before looking at the location
handleSearch_NoLocationGuard ==
    /\ op' = "handleSearch"
    /\ Len(searchCalls) < MaxSearches
    /\ isSearching' = TRUE
    /\ error' = NoError
    /\ result' = Null
    /\ searchCalls' = Append(searchCalls, location)
    /\ prompts' = Append(prompts, prompt(cuisine, price, dietary,
                                         amenities, customDish))
    /\ inFlight' = inFlight \cup {Len(searchCalls) + 1}
    /\ UNCHANGED <<location, locationStatus, geoSupported, geoPending>>
    /\ UNCHANGED <<selectionVars, otherTab, reviewVars, chatVars>>

\* handleSearch up to its await: without a location only the error is set;
\* otherwise isSearching, error and result are reset and findRestaurants is
\* called with the current location
handleSearch ==
    /\ op' = "handleSearch"
    /\ IF location = Null
         THEN /\ error' = MsgEnableLocation
              /\ UNCHANGED <<isSearching, result, searchCalls, prompts, inFlight>>
         ELSE /\ Len(searchCalls) < MaxSearches
              /\ isSearching' = TRUE
              /\ error' = NoError
              /\ result' = Null
              /\ searchCalls' = Append(searchCalls, location)
              /\ prompts' = Append(prompts, prompt(cuisine, price, dietary,
                                                   amenities, customDish))
              /\ inFlight' = inFlight \cup {Len(searchCalls) + 1}
    /\ UNCHANGED <<location, locationStatus, geoSupported, geoPending>>
    /\ UNCHANGED <<selectionVars, otherTab, reviewVars, chatVars>>

\* handleSearch after the await, findRestaurants fulfilled with the result
\* made of the given response: setResult(data), then the finally block
SearchResolvedWith(id, response) ==
    /\ id \in inFlight
    /\ inFlight' = inFlight \ {id}
    /\ result' = ResultFor(id, response)
    /\ isSearching' = FALSE
    /\ op' = "searchResolved"
    /\ UNCHANGED <<location, locationStatus, error, geoSupported, geoPending,
                   searchCalls, prompts>>
    /\ UNCHANGED <<selectionVars, otherTab, reviewVars, chatVars>>

\* handleSearch after the await, findRestaurants fulfilled:
\* setResult(data), then the finally block
SearchResolved(id) ==
    /\ id \in inFlight
    /\ inFlight' = inFlight \ {id}
    /\ result' = ResultOf(id)
    /\ isSearching' = FALSE
    /\ op' = "searchResolved"
    /\ UNCHANGED <<location, locationStatus, error, geoSupported, geoPending,
                   searchCalls, prompts>>
    /\ UNCHANGED <<selectionVars, otherTab, reviewVars, chatVars>>

\* the catch block of handleSearch with no finally block after it
SearchRejected_NoFinally(id) ==
    /\ id \in inFlight
    /\ inFlight' = inFlight \ {id}
    /\ error' = MsgFetchFailed
    /\ op' = "searchRejected"
    /\ UNCHANGED <<location, locationStatus, isSearching, result, geoSupported,
                   geoPending, searchCalls, prompts>>
    /\ UNCHANGED <<selectionVars, otherTab, reviewVars, chatVars>>

\* handleSearch after the await, findRestaurants rejected:
\* the catch block, then the finally block
SearchRejected(id) ==
    /\ id \in inFlight
    /\ inFlight' = inFlight \ {id}
    /\ error' = MsgFetchFailed
    /\ isSearching' = FALSE
    /\ op' = "searchRejected"
    /\ UNCHANGED <<location, locationStatus, result, geoSupported, geoPending,
                   searchCalls, prompts>>
    /\ UNCHANGED <<selectionVars, otherTab, reviewVars, chatVars>>

(* ---------------------------- place cards ----------------------------- *)

\* the grounding chunks a response can hold: two places and a chunk that has
\* no maps field
Chunks ==
    {[maps |-> [title |-> <<"A">>, uri |-> <<"u", "1">>]],
     [maps |-> [title |-> <<"B">>, uri |-> <<"u", "2">>]],
     [web |-> [uri |-> <<"u", "3">>]]}

\* the responses of the provider: with a text, with an empty text or with
\* none, and with up to MaxChunks grounding chunks or no grounding metadata
Responses ==
    {t @@ g : t \in {[text |-> "summary"], [text |-> ""], <<>>},
              g \in {<<>>} \cup {[groundingChunks |-> list] :
                         list \in UNION {[1..n -> Chunks] : n \in 0..MaxChunks}}}

\* the element the results grid makes of a chunk: nothing without chunk.maps,
\* otherwise a card with the chunk's position as key
RenderChunk(chunk, idx) ==
    IF "maps" \notin DOMAIN chunk THEN Null
    ELSE [key |-> idx, title |-> chunk.maps.title, uri |-> chunk.maps.uri]

\* a results grid that shows nothing after a chunk without maps
PlaceCards_StopAtFirstGap ==
    IF result = Null \/ Len(result.groundingChunks) = 0 THEN <<>>
    ELSE LET chunks == result.groundingChunks
             rendered == [i \in 1..Len(chunks) |-> RenderChunk(chunks[i], i - 1)]
             gaps == {i \in 1..Len(chunks) : rendered[i] = Null}
         IN IF gaps = {} THEN rendered
            ELSE SubSeq(rendered, 1,
                        (CHOOSE i \in gaps : \A j \in gaps : i <= j) - 1)

\* the cards of the results grid: shown with a result whose chunk list is
\* not empty, one element per chunk, of which null renders nothing
PlaceCards ==
    IF result = Null \/ Len(result.groundingChunks) = 0 THEN <<>>
    ELSE LET chunks == result.groundingChunks
             rendered == [i \in 1..Len(chunks) |-> RenderChunk(chunks[i], i - 1)]
         IN SelectSeq(rendered, LAMBDA element : element # Null)

\* the AI summary: shown with every result, with the result's text
SummaryShown == result # Null

(* ----------------------- the user and the device ---------------------- *)

\* a click on the location button (a disabled button gets no click)
ClickLocation == ~LocationButtonDisabled /\ requestLocation

\* a click on the search button
ClickSearch == ~SearchButtonDisabled /\ handleSearch

\* the operations called directly, whatever the buttons show
InvokeRequestLocation == requestLocation
InvokeSearch == handleSearch

DeviceAnswers == (\E c \in Coords : GeoSuccess(c)) \/ GeoError

SearchSettles == \E id \in inFlight : SearchResolved(id) \/ SearchRejected(id)

\* the provider answers a search with any of its responses, or fails
ProviderAnswers ==
    \E id \in inFlight :
        \/ \E response \in Responses : SearchResolvedWith(id, response)
        \/ SearchRejected(id)

(* ------------------------- chat: text values -------------------------- *)

\* a string is the sequence of its characters; a fixed text is one token
Digits == <<"0", "1", "2", "3", "4", "5", "6", "7", "8", "9">>

\* Number.prototype.toString, decimal
RECURSIVE toString(_)
toString(n) ==
    IF n < 10 THEN <<Digits[n + 1]>>
    ELSE toString(n \div 10) \o <<Digits[(n % 10) + 1]>>

Whitespace == {" "}

RECURSIVE TrimStart(_)
TrimStart(s) ==
    IF s # <<>> /\ Head(s) \in Whitespace THEN TrimStart(Tail(s)) ELSE s

RECURSIVE TrimEnd(_)
TrimEnd(s) ==
    IF s # <<>> /\ s[Len(s)] \in Whitespace
      THEN TrimEnd(SubSeq(s, 1, Len(s) - 1)) ELSE s

\* String.prototype.trim
Trim(s) == TrimEnd(TrimStart(s))

\* !input.trim()
IsBlank(s) == Trim(s) = <<>>

\* the texts the user can have in the input field: nothing, whitespace
\* only, and a text with whitespace around it
InputTexts == {<<>>, <<" ">>, <<" ", "a", " ">>}

\* chunk.text of a stream chunk; the empty text is falsy
ChunkTexts == {<<>>, <<"x">>, <<"y">>}

WelcomeId == <<"w", "e", "l", "c", "o", "m", "e">>
WelcomeText ==
    <<"Hello! I am your AI food assistant. Ask me anything about cuisines, ingredients, or cooking tips.">>
ApologyText == <<"Sorry, I encountered an error. Please try again.">>

WelcomeMessage == [id |-> WelcomeId, role |-> "model", content |-> WelcomeText]

\* { ...msg, field: val }
With(msg, field, val) ==
    [f \in DOMAIN msg \cup {field} |-> IF f = field THEN val ELSE msg[f]]

\* prev.map(msg => msg.id === id ? { ...msg, field: val } : msg)
MapById(msgs, id, field, val) ==
    [k \in 1..Len(msgs) |->
        IF msgs[k].id = id THEN With(msgs[k], field, val) ELSE msgs[k]]

\* msg.isStreaming is set and true
IsStreaming(msg) == "isStreaming" \in DOMAIN msg /\ msg.isStreaming

(* --------------------------- chat: service ---------------------------- *)

\* a getChatSession without the presence check
SessionAfterGet_NoPresenceCheck == [session |-> sessionsCreated + 1]

\* getChatSession: the session is created when there is none
SessionAfterGet ==
    IF chatSession = Null THEN [session |-> sessionsCreated + 1] ELSE chatSession

CreatedAfterGet ==
    IF chatSession = Null THEN sessionsCreated + 1 ELSE sessionsCreated

\* the streaming calls made so far plus the chunks received so far
RECURSIVE ChunksReceived(_)
ChunksReceived(exs) ==
    IF exs = <<>> THEN 0 ELSE Len(Head(exs).chunks) + ChunksReceived(Tail(exs))

Traffic == Len(exchanges) + ChunksReceived(exchanges)

\* Date.now(): the wall clock does not run backwards
ClockReadings == now..MaxClock

\* getChatSession called by any module: returns the session, creating it
\* when there is none
getChatSession ==
    /\ chatSession' = SessionAfterGet
    /\ sessionsCreated' = CreatedAfterGet
    /\ op' = "getChatSession"
    /\ UNCHANGED <<isOpen, input, messages, isLoading, exchanges, now>>
    /\ UNCHANGED <<finderVars, selectionVars, otherTab, reviewVars>>

\* sendMessageStream called by any module: getChatSession, then the
\* streaming call on the session it returned
sendMessageStream(message) ==
    /\ Traffic < MaxTraffic
    /\ chatSession' = SessionAfterGet
    /\ sessionsCreated' = CreatedAfterGet
    /\ exchanges' = Append(exchanges,
           [pc |-> "direct", message |-> message,
            session |-> SessionAfterGet, botMsgId |-> <<>>,
            slot |-> 0, fullContent |-> <<>>, chunks |-> <<>>])
    /\ op' = "sendMessageStream"
    /\ UNCHANGED <<isOpen, input, messages, isLoading, now>>
    /\ UNCHANGED <<finderVars, selectionVars, otherTab, reviewVars>>

(* --------------------------- chat: handlers --------------------------- *)

\* a guard that does not look at isLoading
SendBlocked_NoLoadingCheck == IsBlank(input)

\* a guard that does not trim the input
SendBlocked_NoTrim == input = <<>> \/ isLoading

\* the guard clause of handleSend: !input.trim() || isLoading
SendBlocked == IsBlank(input) \/ isLoading

\* the send button: disabled={!input.trim() || isLoading}
SendButtonDisabled == IsBlank(input) \/ isLoading

\* the input field: disabled={isLoading}
InputDisabled == isLoading

\* a toggle that also clears the input field
ToggleChat_ClearsInput ==
    /\ isOpen' = ~isOpen
    /\ input' = <<>>
    /\ op' = "toggleChat"
    /\ UNCHANGED <<messages, isLoading, chatSession, sessionsCreated,
                   exchanges, now>>
    /\ UNCHANGED <<finderVars, selectionVars, otherTab, reviewVars>>

\* the toggle button: setIsOpen(!isOpen)
ToggleChat ==
    /\ isOpen' = ~isOpen
    /\ op' = "toggleChat"
    /\ UNCHANGED <<input, messages, isLoading, chatSession, sessionsCreated,
                   exchanges, now>>
    /\ UNCHANGED <<finderVars, selectionVars, otherTab, reviewVars>>

\* onChange of the input field: setInput(e.target.value)
setInput(s) ==
    /\ input' = s
    /\ op' = "setInput"
    /\ UNCHANGED <<isOpen, messages, isLoading, chatSession, sessionsCreated,
                   exchanges, now>>
    /\ UNCHANGED <<finderVars, selectionVars, otherTab, reviewVars>>

\* handleSend up to its await: the guard clause; then the user message is
\* appended, the input cleared, isLoading set, and sendMessageStream called
\* (getChatSession, then chat.sendMessageStream)
handleSend ==
    /\ op' = "handleSend"
    /\ IF SendBlocked
         THEN UNCHANGED <<input, messages, isLoading, chatSession,
                          sessionsCreated, exchanges, now>>
         ELSE /\ Traffic < MaxTraffic
              /\ \E t \in ClockReadings :
                    /\ now' = t
                    /\ messages' = Append(messages,
                         [id |-> toString(t), role |-> "user", content |-> input])
              /\ input' = <<>>
              /\ isLoading' = TRUE
              /\ chatSession' = SessionAfterGet
              /\ sessionsCreated' = CreatedAfterGet
              /\ exchanges' = Append(exchanges,
                     [pc |-> "opening", message |-> input,
                      session |-> SessionAfterGet, botMsgId |-> <<>>,
                      slot |-> 0, fullContent |-> <<>>, chunks |-> <<>>])
    /\ UNCHANGED isOpen
    /\ UNCHANGED <<finderVars, selectionVars, otherTab, reviewVars>>

\* handleSend after `await sendMessageStream`, fulfilled: botMsgId is taken
\* from the clock and the placeholder is appended
StreamOpened(i) ==
    /\ i \in DOMAIN exchanges
    /\ exchanges[i].pc = "opening"
    /\ \E t \in ClockReadings :
          /\ now' = t
          /\ messages' = Append(messages,
                 [id |-> toString(t + 1), role |-> "model", content |-> <<>>,
                  isStreaming |-> TRUE])
          /\ exchanges' = [exchanges EXCEPT ![i].pc = "streaming",
                                            ![i].botMsgId = toString(t + 1),
                                            ![i].slot = Len(messages) + 1]
    /\ op' = "streamOpened"
    /\ UNCHANGED <<isOpen, input, isLoading, chatSession, sessionsCreated>>
    /\ UNCHANGED <<finderVars, selectionVars, otherTab, reviewVars>>

\* a catch block that appends no apology
CatchAndFinally_NoApology(i) ==
    /\ \E t \in ClockReadings : now' = t
    /\ messages' = messages
    /\ isLoading' = FALSE
    /\ exchanges' = [exchanges EXCEPT ![i].pc = "failed"]
    /\ UNCHANGED <<isOpen, input, chatSession, sessionsCreated>>
    /\ UNCHANGED <<finderVars, selectionVars, otherTab, reviewVars>>

\* the catch and finally blocks of handleSend: the apology is appended and
\* isLoading cleared
CatchAndFinally(i) ==
    /\ \E t \in ClockReadings :
          /\ now' = t
          /\ messages' = Append(messages,
                 [id |-> toString(t), role |-> "model", content |-> ApologyText])
    /\ isLoading' = FALSE
    /\ exchanges' = [exchanges EXCEPT ![i].pc = "failed"]
    /\ UNCHANGED <<isOpen, input, chatSession, sessionsCreated>>
    /\ UNCHANGED <<finderVars, selectionVars, otherTab, reviewVars>>

\* handleSend after `await sendMessageStream`, rejected
StreamOpenFailed(i) ==
    /\ i \in DOMAIN exchanges
    /\ exchanges[i].pc = "opening"
    /\ op' = "streamOpenFailed"
    /\ CatchAndFinally(i)

\* a chunk handler that shows the chunk's text instead of the accumulation
ChunkUpdate_LastTextOnly(i, text) ==
    IF text # <<>>
      THEN MapById(messages, exchanges[i].botMsgId, "content", text)
      ELSE messages

\* the body of the for-await loop: a chunk with text is added to fullContent
\* and the message with id botMsgId gets the accumulated content
ChunkUpdate(i, text) ==
    IF text # <<>>
      THEN MapById(messages, exchanges[i].botMsgId, "content",
                   exchanges[i].fullContent \o text)
      ELSE messages

\* one iteration of the for-await loop
StreamChunk(i, text) ==
    /\ i \in DOMAIN exchanges
    /\ exchanges[i].pc = "streaming"
    /\ Traffic < MaxTraffic
    /\ messages' = ChunkUpdate(i, text)
    /\ exchanges' = [exchanges EXCEPT
           ![i].fullContent = exchanges[i].fullContent \o text,
           ![i].chunks = Append(exchanges[i].chunks, text)]
    /\ op' = "streamChunk"
    /\ UNCHANGED <<isOpen, input, isLoading, chatSession, sessionsCreated, now>>
    /\ UNCHANGED <<finderVars, selectionVars, otherTab, reviewVars>>

\* an end of stream that skips the finally block
StreamEnd_NoFinally(i) ==
    /\ i \in DOMAIN exchanges
    /\ exchanges[i].pc = "streaming"
    /\ messages' = MapById(messages, exchanges[i].botMsgId, "isStreaming", FALSE)
    /\ isLoading' = isLoading
    /\ exchanges' = [exchanges EXCEPT ![i].pc = "done"]
    /\ op' = "streamEnd"
    /\ UNCHANGED <<isOpen, input, chatSession, sessionsCreated, now>>
    /\ UNCHANGED <<finderVars, selectionVars, otherTab, reviewVars>>

\* the stream is exhausted: the streaming flag of the message with id
\* botMsgId is set to false, then the finally block
StreamEnd(i) ==
    /\ i \in DOMAIN exchanges
    /\ exchanges[i].pc = "streaming"
    /\ messages' = MapById(messages, exchanges[i].botMsgId, "isStreaming", FALSE)
    /\ isLoading' = FALSE
    /\ exchanges' = [exchanges EXCEPT ![i].pc = "done"]
    /\ op' = "streamEnd"
    /\ UNCHANGED <<isOpen, input, chatSession, sessionsCreated, now>>
    /\ UNCHANGED <<finderVars, selectionVars, otherTab, reviewVars>>

\* the stream throws inside the for-await loop
StreamError(i) ==
    /\ i \in DOMAIN exchanges
    /\ exchanges[i].pc = "streaming"
    /\ op' = "streamError"
    /\ CatchAndFinally(i)

(* ------------------------ chat: user and service ---------------------- *)

\* typing into the input field (a disabled field takes no input)
TypeInput == \E s \in InputTexts : ~InputDisabled /\ s # input /\ setInput(s)

\* the Enter key in the input field
PressEnter == ~InputDisabled /\ handleSend

\* a click on the send button; the closed window takes no pointer events
ClickSend == isOpen /\ ~SendButtonDisabled /\ handleSend

\* the operations called directly, whatever the controls show
InvokeSetInput == \E s \in InputTexts : s # input /\ setInput(s)
InvokeSend == handleSend

\* the messages other callers pass to sendMessageStream
DirectMessages == {<<"h", "i">>}

\* the functions of the service called directly
InvokeGetChatSession == getChatSession
InvokeSendMessageStream == \E message \in DirectMessages : sendMessageStream(message)

\* the service answers the streaming call, or the stream ends or fails
StreamSettles ==
    \E i \in DOMAIN exchanges :
        \/ StreamOpened(i)
        \/ StreamOpenFailed(i)
        \/ StreamEnd(i)
        \/ StreamError(i)

StreamProgresses ==
    \E i \in DOMAIN exchanges :
        \/ StreamOpened(i)
        \/ StreamOpenFailed(i)
        \/ \E text \in ChunkTexts : StreamChunk(i, text)
        \/ StreamEnd(i)
        \/ StreamError(i)

(* ------------------------------ filters ------------------------------- *)

dietaryOptions == <<"Vegetarian", "Vegan", "Gluten-Free", "Halal">>

amenityOptions == <<"Outdoor Seating", "Wi-Fi", "Pet Friendly", "Parking">>

\* the elements of a list
Range(list) == {list[k] : k \in DOMAIN list}

\* Array.prototype.includes
Includes(list, item) == \E k \in DOMAIN list : list[k] = item

\* current.filter(i => i !== item)
Without(list, item) == SelectSeq(list, LAMBDA i : i # item)

\* a toggleFilter that appends whether or not the item is in the list
toggleFilter_AlwaysAppends(item, current) == Append(current, item)

\* toggleFilter: the list handed to setFn
toggleFilter(item, current) ==
    IF Includes(current, item)
      THEN Without(current, item)
      ELSE Append(current, item)

\* no toggleFilter call has been made
NoToggle == [item |-> "", list |-> "", before |-> <<>>]

\* the value of toggled at mount
NoToggles == [item |-> "", list |-> "", before |-> <<>>, prev |-> NoToggle]

\* the record of a toggleFilter call, with that of the call before it
Toggle(item, list, before) ==
    [item |-> item, list |-> list, before |-> before,
     prev |-> [item |-> toggled.item, list |-> toggled.list,
               before |-> toggled.before]]

\* a click on a dietary option: toggleFilter(option, dietary, setDietary)
ToggleDietary(option) ==
    /\ dietary' = toggleFilter(option, dietary)
    /\ toggled' = Toggle(option, "dietary", dietary)
    /\ op' = "toggleFilter"
    /\ UNCHANGED <<amenities, cuisine, price, customDish, otherTab>>
    /\ UNCHANGED <<location, locationStatus, isSearching, result, error,
                   geoSupported, geoPending, searchCalls, prompts, inFlight>>
    /\ UNCHANGED <<reviewVars, chatVars>>

\* a click on an amenity option: toggleFilter(option, amenities, setAmenities)
ToggleAmenity(option) ==
    /\ amenities' = toggleFilter(option, amenities)
    /\ toggled' = Toggle(option, "amenities", amenities)
    /\ op' = "toggleFilter"
    /\ UNCHANGED <<dietary, cuisine, price, customDish, otherTab>>
    /\ UNCHANGED <<location, locationStatus, isSearching, result, error,
                   geoSupported, geoPending, searchCalls, prompts, inFlight>>
    /\ UNCHANGED <<reviewVars, chatVars>>

ClickDietary == \E option \in Range(dietaryOptions) : ToggleDietary(option)

ClickAmenity == \E option \in Range(amenityOptions) : ToggleAmenity(option)

(* ------------------------- reviews: JSON text ------------------------- *)

\* localStorage.getItem of a key that is not set
NoItem == [present |-> FALSE, text |-> <<>>]

\* the text set under a key
Item(text) == [present |-> TRUE, text |-> text]

\* A JSON text is a sequence of lexemes: the punctuation, the quoted
\* property names (one lexeme each), and, one by one, the characters of
\* string literals and the digits of numbers.
ReviewKeys == {"id", "restaurantTitle", "rating", "comment", "timestamp"}

\* the characters JSON.stringify writes as an escape sequence, with the
\* letter of the sequence
Escapes == [c \in {"\"", "\\", "\n"} |-> IF c = "\n" THEN "n" ELSE c]

\* the contents of a string literal
RECURSIVE Escape(_)
Escape(s) ==
    IF s = <<>> THEN <<>>
    ELSE (IF Head(s) \in DOMAIN Escapes
            THEN <<"\\", Escapes[Head(s)]>>
            ELSE <<Head(s)>>) \o Escape(Tail(s))

\* JSON.stringify of a string
JsonString(s) == <<"\"">> \o Escape(s) \o <<"\"">>

\* JSON.stringify of a non-negative integer
JsonNumber(n) == toString(n)

\* JSON.stringify of a Review: the properties in the order of the literal
JsonReview(r) ==
    <<"{", "id", ":">> \o JsonString(r.id)
      \o <<",", "restaurantTitle", ":">> \o JsonString(r.restaurantTitle)
      \o <<",", "rating", ":">> \o JsonNumber(r.rating)
      \o <<",", "comment", ":">> \o JsonString(r.comment)
      \o <<",", "timestamp", ":">> \o JsonNumber(r.timestamp)
      \o <<"}">>

RECURSIVE JsonElements(_)
JsonElements(list) ==
    IF list = <<>> THEN <<>>
    ELSE JsonReview(Head(list))
           \o (IF Tail(list) = <<>> THEN <<>> ELSE <<",">>)
           \o JsonElements(Tail(list))

\* a JSON.stringify that writes string literals without escape sequences
JsonStringify_NoEscapes(list) ==
    LET Plain(r) ==
          <<"{", "id", ":", "\"">> \o r.id
            \o <<"\"", ",", "restaurantTitle", ":", "\"">> \o r.restaurantTitle
            \o <<"\"", ",", "rating", ":">> \o JsonNumber(r.rating)
            \o <<",", "comment", ":", "\"">> \o r.comment
            \o <<"\"", ",", "timestamp", ":">> \o JsonNumber(r.timestamp)
            \o <<"}">>
        RECURSIVE Elements(_)
        Elements(l) ==
          IF l = <<>> THEN <<>>
          ELSE Plain(Head(l)) \o (IF Tail(l) = <<>> THEN <<>> ELSE <<",">>)
                 \o Elements(Tail(l))
    IN  <<"[">> \o Elements(list) \o <<"]">>

\* JSON.stringify of a Review[]
JsonStringify(list) == <<"[">> \o JsonElements(list) \o <<"]">>

\* the result of a parse that throws SyntaxError
SyntaxError == [ok |-> FALSE, kind |-> "error", value |-> <<>>, rest |-> <<>>]

Parsed(kind, value, rest) ==
    [ok |-> TRUE, kind |-> kind, value |-> value, rest |-> rest]

\* the value of a run of digits
RECURSIVE ParseNat(_)
ParseNat(ds) ==
    IF ds = <<>> THEN 0
    ELSE 10 * ParseNat(SubSeq(ds, 1, Len(ds) - 1))
           + (CHOOSE d \in 0..9 : Digits[d + 1] = ds[Len(ds)])

IsDigit(c) == \E d \in 1..10 : Digits[d] = c

\* the longest run of digits at the start of a text
RECURSIVE DigitRun(_)
DigitRun(toks) ==
    IF toks # <<>> /\ IsDigit(Head(toks))
      THEN <<Head(toks)>> \o DigitRun(Tail(toks)) ELSE <<>>

\* a number: digits, without a leading zero unless it is 0
ParseNumber(toks) ==
    LET ds == DigitRun(toks) IN
    IF ds = <<>> \/ (Len(ds) > 1 /\ ds[1] = "0") THEN SyntaxError
    ELSE Parsed("number", ParseNat(ds), SubSeq(toks, Len(ds) + 1, Len(toks)))

\* the rest of a string literal after its opening quote
RECURSIVE ParseChars(_, _)
ParseChars(toks, acc) ==
    IF toks = <<>> THEN SyntaxError
    ELSE IF Head(toks) = "\"" THEN Parsed("string", acc, Tail(toks))
    ELSE IF Head(toks) = "\n" THEN SyntaxError
    ELSE IF Head(toks) = "\\"
      THEN IF Len(toks) < 2 THEN SyntaxError
           ELSE IF toks[2] = "n"
             THEN ParseChars(Tail(Tail(toks)), Append(acc, "\n"))
           ELSE IF toks[2] \in {"\"", "\\"}
             THEN ParseChars(Tail(Tail(toks)), Append(acc, toks[2]))
           ELSE SyntaxError
    ELSE ParseChars(Tail(toks), Append(acc, Head(toks)))

\* the object with the members read, a later member replacing an earlier
\* one of the same name
ObjectOf(members) ==
    [k \in {members[j].key : j \in DOMAIN members} |->
        LET last == CHOOSE j \in DOMAIN members :
                      /\ members[j].key = k
                      /\ \A h \in DOMAIN members : members[h].key = k => h <= j
        IN  members[last].val]

RECURSIVE ParseValue(_), ParseElements(_, _), ParseMembers(_, _)

\* a JSON value at the start of a text
ParseValue(toks) ==
    IF toks = <<>> THEN SyntaxError
    ELSE IF Head(toks) = "[" THEN
        (IF Len(toks) > 1 /\ toks[2] = "]"
           THEN Parsed("array", <<>>, Tail(Tail(toks)))
           ELSE ParseElements(Tail(toks), <<>>))
    ELSE IF Head(toks) = "{" THEN
        (IF Len(toks) > 1 /\ toks[2] = "}"
           THEN Parsed("object", <<>>, Tail(Tail(toks)))
           ELSE ParseMembers(Tail(toks), <<>>))
    ELSE IF Head(toks) = "\"" THEN ParseChars(Tail(toks), <<>>)
    ELSE ParseNumber(toks)

\* the elements of an array after "[" or ","
ParseElements(toks, acc) ==
    LET el == ParseValue(toks) IN
    IF ~el.ok \/ el.rest = <<>> THEN SyntaxError
    ELSE IF Head(el.rest) = ","
      THEN ParseElements(Tail(el.rest), Append(acc, el.value))
    ELSE IF Head(el.rest) = "]"
      THEN Parsed("array", Append(acc, el.value), Tail(el.rest))
    ELSE SyntaxError

\* the members of an object after "{" or ","
ParseMembers(toks, acc) ==
    IF Len(toks) < 2 \/ toks[1] \notin ReviewKeys \/ toks[2] # ":"
      THEN SyntaxError
    ELSE LET el == ParseValue(Tail(Tail(toks))) IN
         IF ~el.ok \/ el.rest = <<>> THEN SyntaxError
         ELSE IF Head(el.rest) = ","
           THEN ParseMembers(Tail(el.rest),
                             Append(acc, [key |-> toks[1], val |-> el.value]))
         ELSE IF Head(el.rest) = "}"
           THEN Parsed("object",
                       ObjectOf(Append(acc, [key |-> toks[1], val |-> el.value])),
                       Tail(el.rest))
         ELSE SyntaxError

\* JSON.parse: the whole text is one value
JsonParse(text) ==
    LET r == ParseValue(text) IN
    IF r.ok /\ r.rest = <<>> THEN r ELSE SyntaxError

\* the initializer of the reviews state: the stored list, or [] when nothing
\* is stored or the text does not parse
LoadReviews(item) ==
    IF item.present /\ item.text # <<>>
      THEN LET parsed == JsonParse(item.text)
           IN  IF parsed.ok THEN parsed.value ELSE <<>>
      ELSE <<>>

(* --------------------------- reviews: handlers ------------------------ *)

\* the places whose cards are shown: title and uri of a maps chunk
Places ==
    {[title |-> <<"A">>, uri |-> <<"u", "1">>],
     [title |-> <<"B">>, uri |-> <<"u", "2">>]}

\* the stars of the StarRating widget: 1..maxRating
Stars == 1..5

\* the stars the user clicks
StarsClicked == {3}

\* the texts typed into the comment field: nothing, and a text with the
\* characters JSON writes as escape sequences
CommentTexts == {<<>>, <<"\"", "n", "\\", "\n">>}

\* an openReviewModal that opens the modal without recording the place
openReviewModal_NoTarget(title, uri) ==
    /\ reviewModalOpen' = TRUE
    /\ newRating' = 5
    /\ newComment' = <<>>
    /\ op' = "openReviewModal"
    /\ UNCHANGED <<reviews, selectedRestaurant, stored>>
    /\ UNCHANGED <<location, locationStatus, isSearching, result, error,
                   geoSupported, geoPending, searchCalls, prompts, inFlight>>
    /\ UNCHANGED <<selectionVars, otherTab, chatVars>>

\* an openReviewModal that keeps the rating and comment entered before
openReviewModal_KeepsInput(title, uri) ==
    /\ selectedRestaurant' = [title |-> title, uri |-> uri]
    /\ reviewModalOpen' = TRUE
    /\ op' = "openReviewModal"
    /\ UNCHANGED <<reviews, newRating, newComment, stored>>
    /\ UNCHANGED <<location, locationStatus, isSearching, result, error,
                   geoSupported, geoPending, searchCalls, prompts, inFlight>>
    /\ UNCHANGED <<selectionVars, otherTab, chatVars>>

\* openReviewModal
openReviewModal(title, uri) ==
    /\ selectedRestaurant' = [title |-> title, uri |-> uri]
    /\ newRating' = 5
    /\ newComment' = <<>>
    /\ reviewModalOpen' = TRUE
    /\ op' = "openReviewModal"
    /\ UNCHANGED <<reviews, stored>>
    /\ UNCHANGED <<location, locationStatus, isSearching, result, error,
                   geoSupported, geoPending, searchCalls, prompts, inFlight>>
    /\ UNCHANGED <<selectionVars, otherTab, chatVars>>

\* onRatingChange of the StarRating in the modal: setNewRating
setNewRating(i) ==
    /\ newRating' = i
    /\ op' = "setNewRating"
    /\ UNCHANGED <<reviews, reviewModalOpen, selectedRestaurant, newComment,
                   stored>>
    /\ UNCHANGED <<location, locationStatus, isSearching, result, error,
                   geoSupported, geoPending, searchCalls, prompts, inFlight>>
    /\ UNCHANGED <<selectionVars, otherTab, chatVars>>

\* onChange of the comment field: setNewComment(e.target.value)
setNewComment(text) ==
    /\ newComment' = text
    /\ op' = "setNewComment"
    /\ UNCHANGED <<reviews, reviewModalOpen, selectedRestaurant, newRating,
                   stored>>
    /\ UNCHANGED <<location, locationStatus, isSearching, result, error,
                   geoSupported, geoPending, searchCalls, prompts, inFlight>>
    /\ UNCHANGED <<selectionVars, otherTab, chatVars>>

\* onClose of the modal and the Cancel button: setReviewModalOpen(false)
closeReviewModal ==
    /\ reviewModalOpen' = FALSE
    /\ op' = "closeReviewModal"
    /\ UNCHANGED <<reviews, selectedRestaurant, newRating, newComment, stored>>
    /\ UNCHANGED <<location, locationStatus, isSearching, result, error,
                   geoSupported, geoPending, searchCalls, prompts, inFlight>>
    /\ UNCHANGED <<selectionVars, otherTab, chatVars>>

\* the Review built by handleReviewSubmit: the clock is read for the id and
\* again for the timestamp
NewReview(t, u) ==
    [id |-> toString(t), restaurantTitle |-> selectedRestaurant.title,
     rating |-> newRating, comment |-> newComment, timestamp |-> u]

\* a handleReviewSubmit whose new list holds the new review only
handleReviewSubmit_DropsOld ==
    /\ op' = "handleReviewSubmit"
    /\ IF selectedRestaurant = Null
         THEN UNCHANGED <<reviews, reviewModalOpen, stored, now>>
         ELSE /\ Len(reviews) < MaxReviews
              /\ \E t \in ClockReadings : \E u \in t..MaxClock :
                    /\ now' = u
                    /\ reviews' = <<NewReview(t, u)>>
                    /\ stored' = Item(JsonStringify(<<NewReview(t, u)>>))
              /\ reviewModalOpen' = FALSE
    /\ UNCHANGED <<selectedRestaurant, newRating, newComment>>
    /\ UNCHANGED <<location, locationStatus, isSearching, result, error,
                   geoSupported, geoPending, searchCalls, prompts, inFlight>>
    /\ UNCHANGED <<selectionVars, otherTab>>
    /\ UNCHANGED <<isOpen, input, messages, isLoading, chatSession,
                   sessionsCreated, exchanges>>

\* a handleReviewSubmit that writes the new review after the reviews that
\* localStorage holds at that moment
handleReviewSubmit_MergesStored ==
    /\ op' = "handleReviewSubmit"
    /\ IF selectedRestaurant = Null
         THEN UNCHANGED <<reviews, reviewModalOpen, stored, now>>
         ELSE /\ Len(reviews) < MaxReviews
              /\ \E t \in ClockReadings : \E u \in t..MaxClock :
                    /\ now' = u
                    /\ reviews' = Append(reviews, NewReview(t, u))
                    /\ stored' =
                          Item(JsonStringify(Append(LoadReviews(stored),
                                                    NewReview(t, u))))
              /\ reviewModalOpen' = FALSE
    /\ UNCHANGED <<selectedRestaurant, newRating, newComment>>
    /\ UNCHANGED finderVars
    /\ UNCHANGED <<selectionVars, otherTab>>
    /\ UNCHANGED <<isOpen, input, messages, isLoading, chatSession,
                   sessionsCreated, exchanges>>

\* handleReviewSubmit: without a target nothing happens; otherwise the review
\* is appended, the whole list written to localStorage and the modal closed
handleReviewSubmit ==
    /\ op' = "handleReviewSubmit"
    /\ IF selectedRestaurant = Null
         THEN UNCHANGED <<reviews, reviewModalOpen, stored, now>>
         ELSE /\ Len(reviews) < MaxReviews
              /\ \E t \in ClockReadings : \E u \in t..MaxClock :
                    /\ now' = u
                    /\ reviews' = Append(reviews, NewReview(t, u))
                    /\ stored' =
                          Item(JsonStringify(Append(reviews, NewReview(t, u))))
              /\ reviewModalOpen' = FALSE
    /\ UNCHANGED <<selectedRestaurant, newRating, newComment>>
    /\ UNCHANGED <<location, locationStatus, isSearching, result, error,
                   geoSupported, geoPending, searchCalls, prompts, inFlight>>
    /\ UNCHANGED <<selectionVars, otherTab>>
    /\ UNCHANGED <<isOpen, input, messages, isLoading, chatSession,
                   sessionsCreated, exchanges>>

\* the sum of the ratings of a list of reviews: reduce((acc, r) => acc + r.rating, 0)
RECURSIVE SumRatings(_)
SumRatings(list) ==
    IF list = <<>> THEN 0
    ELSE SumRatings(SubSeq(list, 1, Len(list) - 1)) + list[Len(list)].rating

\* (sum / count).toFixed(1): the number of tenths nearest to the quotient,
\* the larger of two equally near, written with one digit after the point.
\* The quotient of two integers is halfway between two tenths only when it
\* is a multiple of 1/4 for the counts the bounds allow (up to 5), and
\* these the floating-point division yields exactly
toFixed1(sum, count) ==
    LET tenths == (20 * sum + count) \div (2 * count)
    IN toString(tenths \div 10) \o <<".">> \o toString(tenths % 10)

\* a getRestaurantStats that counts the reviews of every place
getRestaurantStats_AllReviews(title) ==
    LET restaurantReviews == reviews
    IN IF Len(restaurantReviews) = 0 THEN Null
       ELSE [average |-> toFixed1(SumRatings(restaurantReviews),
                                  Len(restaurantReviews)),
             count |-> Len(restaurantReviews)]

\* getRestaurantStats: null without a review of the title, otherwise the
\* average of the ratings with one decimal and the number of reviews
getRestaurantStats(title) ==
    LET restaurantReviews ==
            SelectSeq(reviews, LAMBDA r : r.restaurantTitle = title)
    IN IF Len(restaurantReviews) = 0 THEN Null
       ELSE [average |-> toFixed1(SumRatings(restaurantReviews),
                                  Len(restaurantReviews)),
             count |-> Len(restaurantReviews)]

\* the ratings of the reviews that earlier sessions left
SavedRatings == {1, 4, 5}

\* the review lists that earlier sessions left in localStorage: the i-th
\* review was submitted at millisecond i
SavedLists ==
    UNION {{[i \in 1..n |->
                [id |-> toString(i), restaurantTitle |-> pick[i].title,
                 rating |-> pick[i].rating, comment |-> <<>>, timestamp |-> i]] :
             pick \in [1..n -> [title : {<<"A">>, <<"B">>}, rating : SavedRatings]]} :
           n \in 0..MaxSaved}

\* sessions before this one have written their reviews to localStorage
EarlierSessions ==
    /\ ~stored.present
    /\ \E list \in SavedLists : stored' = Item(JsonStringify(list))
    /\ op' = "earlierSessions"
    /\ UNCHANGED <<reviews, reviewModalOpen, selectedRestaurant, newRating,
                   newComment, otherTab, now>>
    /\ UNCHANGED <<finderVars, selectionVars, isOpen, input, messages,
                   isLoading, chatSession, sessionsCreated, exchanges>>

\* what localStorage can hold under 'restaurant_reviews' when the page is
\* loaded: nothing, the empty text, a text that is not JSON, the JSON of a
\* string, the JSON of a list of numbers, or the list of up to one review
\* that an earlier session wrote
StoredItems ==
    {NoItem, Item(<<>>), Item(<<"[", "{">>), Item(<<"\"", "x", "\"">>),
     Item(<<"[", "7", "]">>)}
    \cup {Item(JsonStringify(list)) : list \in {l \in SavedLists : Len(l) <= 1}}

\* localStorage is written from outside the running page: by an earlier
\* session, another program of the same origin, or the user
StorageWritten ==
    /\ \E item \in StoredItems \ {stored} : stored' = item
    /\ op' = "storageWritten"
    /\ UNCHANGED <<reviews, reviewModalOpen, selectedRestaurant, newRating,
                   newComment, otherTab, now>>
    /\ UNCHANGED <<finderVars, selectionVars, isOpen, input, messages,
                   isLoading, chatSession, sessionsCreated, exchanges>>

\* an instance of the page is mounted: every state of the components and of
\* the service module has its initial value, and the reviews are read from
\* localStorage
MountInstance ==
    /\ reviews' = LoadReviews(stored)
    /\ reviewModalOpen' = FALSE
    /\ selectedRestaurant' = Null
    /\ newRating' = 5
    /\ newComment' = <<>>
    /\ location' = Null
    /\ locationStatus' = "idle"
    /\ isSearching' = FALSE
    /\ result' = Null
    /\ error' = NoError
    /\ geoPending' = 0
    /\ searchCalls' = <<>>
    /\ inFlight' = {}
    /\ prompts' = <<>>
    /\ dietary' = <<>>
    /\ amenities' = <<>>
    /\ toggled' = NoToggles
    /\ cuisine' = "Any Cuisine"
    /\ price' = "Any Price"
    /\ customDish' = <<>>
    /\ isOpen' = FALSE
    /\ input' = <<>>
    /\ messages' = <<WelcomeMessage>>
    /\ isLoading' = FALSE
    /\ chatSession' = Null
    /\ sessionsCreated' = 0
    /\ exchanges' = <<>>

\* the page is loaded again in its tab: every state of the components and
\* of the service module starts over
Mount ==
    /\ MountInstance
    /\ op' = "mount"
    /\ UNCHANGED <<stored, otherTab, geoSupported, now>>

\* the state of the instance of the page that is in the foreground
ThisTab ==
    [opened |-> TRUE,
     location |-> location,
     locationStatus |-> locationStatus,
     isSearching |-> isSearching,
     result |-> result,
     error |-> error,
     geoPending |-> geoPending,
     searchCalls |-> searchCalls,
     inFlight |-> inFlight,
     prompts |-> prompts,
     dietary |-> dietary,
     amenities |-> amenities,
     toggled |-> toggled,
     cuisine |-> cuisine,
     price |-> price,
     customDish |-> customDish,
     reviews |-> reviews,
     reviewModalOpen |-> reviewModalOpen,
     selectedRestaurant |-> selectedRestaurant,
     newRating |-> newRating,
     newComment |-> newComment,
     isOpen |-> isOpen,
     input |-> input,
     messages |-> messages,
     isLoading |-> isLoading,
     chatSession |-> chatSession,
     sessionsCreated |-> sessionsCreated,
     exchanges |-> exchanges]

\* the user opens the page in a second tab, or goes over to the other tab:
\* the instance that is left keeps its state, the other instance is mounted
\* when it is new and has the state it was left with otherwise; localStorage
\* is the same for both
SwitchTab ==
    /\ otherTab' = ThisTab
    /\ IF ~otherTab.opened THEN MountInstance
       ELSE
            /\ location' = otherTab.location
            /\ locationStatus' = otherTab.locationStatus
            /\ isSearching' = otherTab.isSearching
            /\ result' = otherTab.result
            /\ error' = otherTab.error
            /\ geoPending' = otherTab.geoPending
            /\ searchCalls' = otherTab.searchCalls
            /\ inFlight' = otherTab.inFlight
            /\ prompts' = otherTab.prompts
            /\ dietary' = otherTab.dietary
            /\ amenities' = otherTab.amenities
            /\ toggled' = otherTab.toggled
            /\ cuisine' = otherTab.cuisine
            /\ price' = otherTab.price
            /\ customDish' = otherTab.customDish
            /\ reviews' = otherTab.reviews
            /\ reviewModalOpen' = otherTab.reviewModalOpen
            /\ selectedRestaurant' = otherTab.selectedRestaurant
            /\ newRating' = otherTab.newRating
            /\ newComment' = otherTab.newComment
            /\ isOpen' = otherTab.isOpen
            /\ input' = otherTab.input
            /\ messages' = otherTab.messages
            /\ isLoading' = otherTab.isLoading
            /\ chatSession' = otherTab.chatSession
            /\ sessionsCreated' = otherTab.sessionsCreated
            /\ exchanges' = otherTab.exchanges
    /\ op' = "switchTab"
    /\ UNCHANGED <<stored, geoSupported, now>>

\* the Rate button of a place card (the modal, when open, covers the cards)
ClickRate ==
    \E place \in Places :
        ~reviewModalOpen /\ openReviewModal(place.title, place.uri)

\* a star of the modal
ClickStar == \E i \in StarsClicked \cap Stars : reviewModalOpen /\ setNewRating(i)

\* typing into the comment field of the modal
TypeComment ==
    \E text \in CommentTexts :
        reviewModalOpen /\ text # newComment /\ setNewComment(text)

\* the Cancel button and the close button of the modal
ClickCancel == reviewModalOpen /\ closeReviewModal

\* the Submit Review button of the modal
ClickSubmit == reviewModalOpen /\ handleReviewSubmit

\* the user reloads the page
Reload == Mount

\* no second instance of the page has been opened
NoTab == [opened |-> FALSE]

(* --------------------------- specifications --------------------------- *)

\* the search inputs after construction
InitInputs ==
    /\ cuisine = "Any Cuisine"
    /\ price = "Any Price"
    /\ dietary = <<>>
    /\ amenities = <<>>
    /\ customDish = <<>>

\* the rest of the state after construction
InitRest ==
    /\ location = Null
    /\ locationStatus = "idle"
    /\ isSearching = FALSE
    /\ result = Null
    /\ error = NoError
    /\ geoSupported \in BOOLEAN
    /\ geoPending = 0
    /\ searchCalls = <<>>
    /\ inFlight = {}
    /\ prompts = <<>>
    /\ toggled = NoToggles
    /\ reviews = LoadReviews(NoItem)
    /\ reviewModalOpen = FALSE
    /\ selectedRestaurant = Null
    /\ newRating = 5
    /\ newComment = <<>>
    /\ stored = NoItem
    /\ otherTab = NoTab
    /\ isOpen = FALSE
    /\ input = <<>>
    /\ messages = <<WelcomeMessage>>
    /\ isLoading = FALSE
    /\ chatSession = Null
    /\ sessionsCreated = 0
    /\ exchanges = <<>>
    /\ now = 0
    /\ op = "init"

Init == InitInputs /\ InitRest

\* the orders in which up to two of the given options can be selected
Selections(options) ==
    {<<>>} \cup {<<o>> : o \in options}
           \cup ({<<o, q>> : o, q \in options} \ {<<o, o>> : o \in options})

\* the search inputs a search is made with
CuisinesSelected == {"Any Cuisine", "Thai", "Vegan"}
PricesSelected == {"Any Price", "$$"}
DietarySelected == Selections({"Vegan", "Gluten-Free"})
AmenitiesSelected == Selections({"Wi-Fi"})
DishesTyped == {<<>>, <<"R", "a", "m", "e", "n">>, <<" ">>}

\* the search inputs as the user has set them before searching
InitSearchInputs ==
    /\ cuisine \in CuisinesSelected
    /\ price \in PricesSelected
    /\ dietary \in DietarySelected
    /\ amenities \in AmenitiesSelected
    /\ customDish \in DishesTyped

\* the Restaurant Finder driven through its buttons
FinderNext == ClickLocation \/ ClickSearch \/ DeviceAnswers \/ SearchSettles

\* the Restaurant Finder with its operations also called directly
FinderOpsNext == InvokeRequestLocation \/ InvokeSearch \/ DeviceAnswers \/ SearchSettles

\* the Chat Assistant driven through its controls
ChatNext ==
    ToggleChat \/ TypeInput \/ PressEnter \/ ClickSend \/ StreamProgresses

\* the operations of the Chat Assistant called directly, whatever the
\* controls show (the visibility of the window plays no part in them)
ChatOpsNext == InvokeSetInput \/ InvokeSend \/ StreamProgresses

\* the application: both components on one page
Next == FinderNext \/ ChatNext

Spec == Init /\ [][Next]_vars

SpecFinder == Init /\ [][FinderNext]_vars

SpecFinderOps == Init /\ [][FinderOpsNext]_vars

SpecChat == Init /\ [][ChatNext]_vars

SpecChatOps == Init /\ [][ChatOpsNext]_vars

\* a provider call that was made eventually settles
FairSpecFinder == SpecFinder /\ WF_vars(SearchSettles)

\* the filter panel of the Restaurant Finder
FiltersNext == ClickDietary \/ ClickAmenity

SpecFilters == Init /\ [][FiltersNext]_vars

\* the review workflow of the Restaurant Finder
ReviewsNext ==
    ClickRate \/ ClickStar \/ TypeComment \/ ClickCancel \/ ClickSubmit \/ Reload

SpecReviews == Init /\ [][ReviewsNext]_vars

\* the chat service called by the Chat Assistant and by other callers
ServiceNext ==
    \/ InvokeGetChatSession
    \/ InvokeSendMessageStream
    \/ TypeInput
    \/ PressEnter
    \/ StreamSettles

SpecService == Init /\ [][ServiceNext]_vars

\* the Chat Assistant driven through its input field
ChatKeysNext == TypeInput \/ PressEnter \/ StreamProgresses

\* a streaming call is eventually answered and a stream eventually ends or
\* fails
FairSpecChat == Init /\ [][ChatKeysNext]_vars /\ WF_vars(StreamSettles)

\* the review workflow on the reviews that earlier sessions left
StatsNext ==
    EarlierSessions \/ Reload \/ ClickRate \/ ClickCancel \/ ClickSubmit

SpecStats == Init /\ [][StatsNext]_vars

\* the user goes over to the other tab between two reviews
GoToOtherTab == ~reviewModalOpen /\ SwitchTab

\* the review workflow in two tabs that share localStorage
TabsNext == GoToOtherTab \/ ClickRate \/ ClickSubmit

SpecTabs == Init /\ [][TabsNext]_vars

\* the page loaded on every content of localStorage
StorageNext == StorageWritten \/ Reload \/ ClickRate \/ ClickCancel

SpecStorage == Init /\ [][StorageNext]_vars

\* searches answered with every response of the provider
CardsNext == ClickLocation \/ ClickSearch \/ DeviceAnswers \/ ProviderAnswers

SpecCards == Init /\ [][CardsNext]_vars

\* searches made with each combination of the search inputs, up to the call
\* of the service
PromptNext == ClickLocation \/ DeviceAnswers \/ ClickSearch

InitPrompt == InitSearchInputs /\ InitRest

SpecPrompt == InitPrompt /\ [][PromptNext]_vars

(* ------------------- claims: the Restaurant Finder -------------------- *)

\* C1: whenever the searching flag is true the result is absent: a search
\* that starts discards the previous result, whatever the order of searches,
\* location requests and their completions (also with overlapping calls).
C1_NoResultWhileSearching == isSearching => result = Null

\* a second search has started after an earlier one had settled
C1_Witness ==
    /\ isSearching
    /\ op = "handleSearch"
    /\ Len(searchCalls) >= 2
    /\ Cardinality(inFlight) = 1
    /\ result = Null

C3_SearchButtonDisabled ==
    /\ [](SearchButtonDisabled <=> (location = Null \/ isSearching))
    /\ [][op' = "handleSearch" => (location # Null /\ ~isSearching)]_vars

\* the button is disabled by the loading flag alone
C3_Witness == isSearching /\ location # Null /\ SearchButtonDisabled

\* C4: handleSearch run without a location sets the fixed error, calls the
\* service zero times and leaves result and isSearching as they were.
C4_SearchWithoutLocation ==
    [][(op' = "handleSearch" /\ location = Null) =>
          /\ error' = MsgEnableLocation
          /\ searchCalls' = searchCalls
          /\ inFlight' = inFlight
          /\ result' = result
          /\ isSearching' = isSearching]_vars

\* handleSearch has run without a location
C4_Witness ==
    /\ op = "handleSearch"
    /\ location = Null
    /\ error = MsgEnableLocation
    /\ searchCalls = <<>>

\* C5: a search that set the searching flag eventually clears it, given the
\* provider call settles; on success the result of the call is stored, on
\* failure the fixed error is set and the result stays absent.
C5_SearchingFlagCleared ==
    /\ isSearching ~> ~isSearching
    /\ [][/\ op' = "searchResolved" =>
               /\ ~isSearching'
               /\ \A id \in inFlight : result' = ResultOf(id)
          /\ op' = "searchRejected" =>
               /\ ~isSearching'
               /\ error' = MsgFetchFailed
               /\ result' = Null]_vars

\* a search has failed and the flag is cleared
C5_Witness ==
    /\ op = "searchRejected"
    /\ ~isSearching
    /\ error = MsgFetchFailed
    /\ result = Null

\* the changes of the location status C6 lists
C6_ListedChanges ==
    {<<"idle", "loading">>, <<"success", "loading">>, <<"error", "loading">>,
     <<"loading", "success">>, <<"loading", "error">>}

\* C6 as stated: every change of the location status is one of the five
\* listed, and at most one device request is outstanding.
C6_Original ==
    /\ [][locationStatus' # locationStatus =>
             <<locationStatus, locationStatus'>> \in C6_ListedChanges]_vars
    /\ [](geoPending <= 1)

\* C6 as amended: every change of the location status is one of the five
\* listed or, on a device without location capability, idle -> error; the
\* status never returns to idle and never moves between success and error,
\* no request starts from the UI while the status is loading, and at most one
\* device request is outstanding, exactly while the status is loading.
C6_LocationStatusChanges ==
    /\ [][/\ locationStatus' # locationStatus =>
               \/ <<locationStatus, locationStatus'>> \in C6_ListedChanges
               \/ /\ ~geoSupported
                  /\ <<locationStatus, locationStatus'>> = <<"idle", "error">>
          /\ op' = "requestLocation" => locationStatus # "loading"]_vars
    /\ [](geoPending <= 1 /\ (geoPending = 1 <=> locationStatus = "loading"))

\* a second request is outstanding after an earlier one succeeded
C6_Witness ==
    /\ locationStatus = "loading"
    /\ location # Null
    /\ geoPending = 1

\* C7: on a device without location capability requestLocation takes the
\* status to error without it ever being loading or success, sets the fixed
\* error, never calls the device API and leaves location unchanged.
C7_UnsupportedDevice ==
    /\ [](~geoSupported =>
             /\ locationStatus \in {"idle", "error"}
             /\ geoPending = 0
             /\ location = Null)
    /\ [][(~geoSupported /\ op' = "requestLocation") =>
             /\ locationStatus' = "error"
             /\ error' = MsgGeoUnsupported
             /\ location' = location
             /\ geoPending' = geoPending]_vars

\* requestLocation has run on a device without location capability
C7_Witness ==
    /\ ~geoSupported
    /\ op = "requestLocation"
    /\ locationStatus = "error"
    /\ error = MsgGeoUnsupported

\* C27: location, once acquired, is never reset to absent: a location
\* request that is loading or has failed leaves the stored coordinates
\* unchanged, so status success implies location present, while with status
\* loading or error a search is still made with the old coordinates.
C27_LocationKept ==
    /\ [](locationStatus = "success" => location # Null)
    /\ [][location # Null => location' # Null]_vars
    /\ [][op' \in {"requestLocation", "geoError"} => location' = location]_vars
    /\ [][(op' = "handleSearch" /\ location # Null) =>
            /\ searchCalls' = Append(searchCalls, location)
            /\ isSearching']_vars

\* a search has been started with the coordinates acquired before a later
\* location request failed
C27_Witness ==
    /\ op = "handleSearch"
    /\ locationStatus = "error"
    /\ error = NoError
    /\ location # Null
    /\ isSearching
    /\ searchCalls # <<>>
    /\ searchCalls[Len(searchCalls)] = location

\* C28 as stated: a search result and an error message are never present
\* together, for any interleaving of search start, search completion,
\* location request and location callbacks.
C28_Original == ~(result # Null /\ error # NoError)

\* C28: a search result is never present together with a message of the
\* search itself (no location, or the call failed); it can be present
\* together with the message of a location request that failed, because
\* the location callbacks set the shared error and leave the result.
C28_NoSearchErrorWithResult ==
    /\ [](result # Null => error \in {NoError, MsgGeoFailed})
    /\ [][op' \in {"requestLocation", "geoSuccess", "geoError"} =>
            result' = result]_vars

\* a location request has failed while a result is shown
C28_Witness ==
    /\ op = "geoError"
    /\ result # Null
    /\ error = MsgGeoFailed
    /\ locationStatus = "error"

(* --------------------- claims: the Chat Assistant --------------------- *)

\* the exchanges whose stream has been requested and has not ended or failed
ActiveExchanges ==
    {i \in DOMAIN exchanges : exchanges[i].pc \in {"opening", "streaming"}}

\* the concatenation of the texts of a sequence of chunks, in order
RECURSIVE Concat(_)
Concat(chunks) ==
    IF chunks = <<>> THEN <<>> ELSE Head(chunks) \o Concat(Tail(chunks))

\* C8: at most one send is in progress at any time: while isLoading is true
\* a further run of handleSend starts no streaming call, so two chat streams
\* never overlap, and isLoading is true exactly while an exchange is in flight.
C8_OneSendInProgress ==
    /\ Cardinality(ActiveExchanges) <= 1
    /\ isLoading <=> ActiveExchanges # {}

\* handleSend has run with text in the input while a send was in progress
C8_Witness ==
    /\ op = "handleSend"
    /\ isLoading
    /\ ~IsBlank(input)
    /\ Cardinality(ActiveExchanges) = 1
    /\ exchanges[Len(exchanges)].pc = "streaming"

\* C9: handleSend is a no-op whenever the input is empty after trimming or a
\* send is in progress: message list, input and isLoading are unchanged and no
\* call is made to the service.
C9_SendNoOp ==
    [][(op' = "handleSend" /\ (IsBlank(input) \/ isLoading)) =>
          /\ messages' = messages
          /\ input' = input
          /\ isLoading' = isLoading
          /\ exchanges' = exchanges
          /\ chatSession' = chatSession
          /\ sessionsCreated' = sessionsCreated]_vars

\* handleSend has run on an input of whitespace only
C9_Witness ==
    /\ op = "handleSend"
    /\ input # <<>>
    /\ IsBlank(input)
    /\ ~isLoading
    /\ exchanges = <<>>

\* C10: while a stream is being read the placeholder holds the concatenation
\* of the chunks received so far, in arrival order (empty chunks add nothing),
\* with isStreaming true; when the stream ends normally the content is the
\* concatenation of all its chunks and isStreaming becomes false.
C10_StreamedContent ==
    /\ [](\A i \in DOMAIN exchanges :
             exchanges[i].pc = "streaming" =>
                 /\ messages[exchanges[i].slot].role = "model"
                 /\ messages[exchanges[i].slot].content = Concat(exchanges[i].chunks)
                 /\ IsStreaming(messages[exchanges[i].slot]))
    /\ [][\A i \in DOMAIN exchanges :
             (exchanges[i].pc = "streaming" /\ exchanges'[i].pc = "done") =>
                 /\ messages'[exchanges[i].slot].content = Concat(exchanges[i].chunks)
                 /\ ~IsStreaming(messages'[exchanges[i].slot])]_vars

\* a stream of two different chunks has ended normally
C10_Witness ==
    \E i \in DOMAIN exchanges :
        /\ exchanges[i].pc = "done"
        /\ exchanges[i].chunks = <<<<"x">>, <<"y">>>>
        /\ messages[exchanges[i].slot].content = <<"x", "y">>
        /\ ~IsStreaming(messages[exchanges[i].slot])

\* the exchanges whose stream failed after the placeholder was appended and
\* at least one fragment with text was applied
FailedMidStream ==
    {i \in DOMAIN exchanges :
        /\ exchanges[i].pc = "failed"
        /\ exchanges[i].slot > 0
        /\ exchanges[i].fullContent # <<>>}

\* C11: when a chat stream fails after delivering some fragments, the message
\* list holds the model message with the partial content accumulated so far,
\* with its streaming flag cleared, followed immediately by a separate model
\* message with the fixed apology text; the partial content is not rolled back.
C11_Original ==
    \A i \in FailedMidStream :
        /\ messages[exchanges[i].slot].role = "model"
        /\ messages[exchanges[i].slot].content = exchanges[i].fullContent
        /\ ~IsStreaming(messages[exchanges[i].slot])
        /\ Len(messages) > exchanges[i].slot
        /\ messages[exchanges[i].slot + 1].role = "model"
        /\ messages[exchanges[i].slot + 1].content = ApologyText

\* the positions of the messages whose isStreaming is true
StreamingMessages == {k \in DOMAIN messages : IsStreaming(messages[k])}

\* C12: any message with isStreaming true has role "model" and is the most
\* recently appended model message of an exchange that is still in flight;
\* hence when no send is in progress no message has isStreaming true, and at
\* most one message has isStreaming true at any time.
C12_Original ==
    /\ \A k \in StreamingMessages :
          /\ messages[k].role = "model"
          /\ \E i \in ActiveExchanges : exchanges[i].slot = k
          /\ \A j \in DOMAIN messages : j > k => messages[j].role # "model"
    /\ ~isLoading => StreamingMessages = {}
    /\ Cardinality(StreamingMessages) <= 1

\* the number of messages of a role in the list
CountRole(role) == Cardinality({k \in DOMAIN messages : messages[k].role = role})

\* the exchanges that failed before the placeholder was appended
FailedAtInitiation ==
    {i \in DOMAIN exchanges : exchanges[i].pc = "failed" /\ exchanges[i].slot = 0}

\* the exchanges that failed after the placeholder was appended
FailedInStream ==
    {i \in DOMAIN exchanges : exchanges[i].pc = "failed" /\ exchanges[i].slot > 0}

\* the exchanges whose placeholder is in the list and that have not failed
Answered ==
    {i \in DOMAIN exchanges : exchanges[i].pc \in {"streaming", "done"}}

\* C13 as stated: the list starts as exactly one welcome message and grows by
\* exactly one user message and one model message per exchange, for every
\* outcome of the exchange.
C13_Original ==
    /\ messages[1] = WelcomeMessage
    /\ ActiveExchanges = {} =>
          /\ CountRole("user") = Len(exchanges)
          /\ CountRole("model") = 1 + Len(exchanges)
          /\ Len(messages) = 1 + 2 * Len(exchanges)

\* C13: the list starts as exactly one welcome message; every exchange adds
\* exactly one user message; an exchange that completes or fails at stream
\* initiation adds exactly one model message (the answer or the apology), and
\* an exchange that fails after the placeholder was appended adds two (the
\* placeholder with the partial content and the apology).
C13_GrowthPerExchange ==
    /\ messages[1] = WelcomeMessage
    /\ CountRole("user") = Len(exchanges)
    /\ CountRole("model") =
          1 + Cardinality(Answered) + Cardinality(FailedAtInitiation)
            + 2 * Cardinality(FailedInStream)
    /\ Len(messages) = CountRole("user") + CountRole("model")

\* three exchanges have ended, one in each way
C13_Witness ==
    /\ ActiveExchanges = {}
    /\ \E i \in DOMAIN exchanges : exchanges[i].pc = "done"
    /\ FailedAtInitiation # {}
    /\ FailedInStream # {}
    /\ Len(messages) = 8

\* C14: all messages in the chat message list have pairwise distinct ids, for
\* any non-decreasing wall clock (including two ids generated in the same
\* millisecond): user ids are the clock value at send, the placeholder id is
\* the clock value plus one at stream initiation, the apology id is the clock
\* value at failure.
C14_Original ==
    \A j, k \in DOMAIN messages : j # k => messages[j].id # messages[k].id

\* C15: every chat send that sets isLoading eventually clears it, whether the
\* stream completes, fails at initiation or fails mid-stream (given that the
\* stream eventually ends or fails), and isLoading is never left true with no
\* exchange in flight.
C15_LoadingCleared ==
    /\ isLoading ~> ~isLoading
    /\ [](isLoading => ActiveExchanges # {})

\* a send has set isLoading, fragments arrived, the stream failed and
\* isLoading is false again
C15_Witness ==
    /\ op = "streamError"
    /\ ~isLoading
    /\ ActiveExchanges = {}
    /\ exchanges[Len(exchanges)].pc = "failed"
    /\ exchanges[Len(exchanges)].chunks # <<>>

\* C16: toggling the chat panel changes only the open flag: the message list,
\* the input text, isLoading and the chat session are unchanged; and a stream
\* in flight while the panel is closed keeps applying its fragments to the
\* message list.
C16_ToggleFrame ==
    /\ [][op' = "toggleChat" =>
            /\ isOpen' = ~isOpen
            /\ messages' = messages
            /\ input' = input
            /\ isLoading' = isLoading
            /\ chatSession' = chatSession
            /\ sessionsCreated' = sessionsCreated
            /\ exchanges' = exchanges]_vars
    /\ [][(op' = "streamChunk" /\ ~isOpen) =>
            \A i \in DOMAIN exchanges :
                exchanges'[i].chunks # exchanges[i].chunks =>
                    /\ exchanges'[i].pc = "streaming"
                    /\ messages'[exchanges[i].slot].content =
                          Concat(exchanges'[i].chunks)]_vars

\* the panel has just been closed while a stream that has delivered a
\* fragment is in flight; the placeholder still holds the fragments
C16_Witness ==
    /\ op = "toggleChat"
    /\ ~isOpen
    /\ isLoading
    /\ \E i \in DOMAIN exchanges :
          /\ exchanges[i].pc = "streaming"
          /\ exchanges[i].fullContent # <<>>
          /\ messages[exchanges[i].slot].content = exchanges[i].fullContent

\* C30: the chat message list is append-only: once appended, a message keeps
\* its id, role and position, no message is ever removed, and a streaming
\* update (content replacement or clearing isStreaming) changes only the
\* placeholder message of the current exchange while every other message,
\* including earlier replies, stays unchanged.
C30_Original ==
    [][/\ Len(messages') >= Len(messages)
       /\ \A k \in DOMAIN messages :
             /\ messages'[k].id = messages[k].id
             /\ messages'[k].role = messages[k].role
             /\ messages'[k] # messages[k] =>
                   /\ op' \in {"streamChunk", "streamEnd"}
                   /\ \E i \in DOMAIN exchanges :
                         /\ exchanges[i].pc = "streaming"
                         /\ exchanges[i].slot = k]_vars

(* ----------------------- claims: the chat service --------------------- *)

\* C17: the chat session is created at most once per run: the first
\* getChatSession call creates it, and every later getChatSession and
\* sendMessageStream call, in any order and number, reuses that same session
\* without creating another.
C17_SessionCreatedOnce ==
    /\ [](sessionsCreated <= 1)
    /\ [](chatSession = Null <=> sessionsCreated = 0)
    /\ [](\A i \in DOMAIN exchanges : exchanges[i].session = chatSession)
    /\ [][chatSession # Null =>
            /\ chatSession' = chatSession
            /\ sessionsCreated' = sessionsCreated]_vars
    /\ [][op' \in {"getChatSession", "sendMessageStream"} =>
            chatSession' # Null]_vars

\* getChatSession has been called after streaming calls made directly and
\* by handleSend
C17_Witness ==
    /\ op = "getChatSession"
    /\ sessionsCreated = 1
    /\ \E i, j \in DOMAIN exchanges :
          /\ exchanges[i].pc = "direct"
          /\ exchanges[j].pc # "direct"
          /\ exchanges[i].session = exchanges[j].session

(* ---------------------- claims: filters and reviews ------------------- *)

\* the last two toggleFilter calls toggled the same item of the same list
TwiceInSuccession ==
    /\ toggled.item # ""
    /\ toggled.prev.item = toggled.item
    /\ toggled.prev.list = toggled.list

\* the selection list a toggleFilter call was made on
Selection(list) == IF list = "dietary" THEN dietary ELSE amenities

\* how often an item is in a list
Occurrences(list, item) == Cardinality({k \in DOMAIN list : list[k] = item})

SameContents(a, b) ==
    \A item \in Range(a) \cup Range(b) :
        Occurrences(a, item) = Occurrences(b, item)

\* C18: toggling the same tag twice in succession returns the selection list
\* to its original contents and keeps the original relative order of the
\* remaining elements, both when the tag was initially present and when it
\* was initially absent.
C18_ToggleTwice ==
    TwiceInSuccession =>
        /\ SameContents(Selection(toggled.list), toggled.prev.before)
        /\ Without(Selection(toggled.list), toggled.item) =
              Without(toggled.prev.before, toggled.item)

\* a tag that was selected first of three has been toggled twice: the list
\* has its original contents, the tag now being last
C18_Witness ==
    /\ op = "toggleFilter"
    /\ TwiceInSuccession
    /\ Len(toggled.prev.before) = 3
    /\ toggled.prev.before[1] = toggled.item
    /\ Selection(toggled.list)[3] = toggled.item
    /\ toggled.before = Without(toggled.prev.before, toggled.item)

\* a list is the start of another
IsPrefix(a, b) == Len(a) <= Len(b) /\ SubSeq(b, 1, Len(a)) = a

\* C19: the in-memory review list is append-only: each submit-review appends
\* exactly one new review at the end, and no operation ever edits, reorders
\* or removes a review already in the list; a user may submit any number of
\* reviews for the same title.
C19_AppendOnly ==
    [][/\ IsPrefix(reviews, reviews')
       /\ IF op' = "handleReviewSubmit" /\ selectedRestaurant # Null
            THEN /\ Len(reviews') = Len(reviews) + 1
                 /\ reviews'[Len(reviews')].restaurantTitle =
                       selectedRestaurant.title
                 /\ reviews'[Len(reviews')].rating = newRating
                 /\ reviews'[Len(reviews')].comment = newComment
            ELSE reviews' = reviews]_vars

\* a second review of the same title has been submitted, with another
\* rating and another comment than the first
C19_Witness ==
    /\ op = "handleReviewSubmit"
    /\ Len(reviews) = 2
    /\ reviews[1].restaurantTitle = reviews[2].restaurantTitle
    /\ reviews[1].rating # reviews[2].rating
    /\ reviews[1].comment # reviews[2].comment

\* C20: review persistence round-trips: after any sequence of submit-review
\* operations the content stored under restaurant_reviews is the
\* serialization of the full in-memory review list, so a fresh mount from the
\* same storage loads a list with every submitted review, with identical field
\* values and in the same order.
C20_RoundTrip ==
    /\ [](IF stored.present
            THEN stored.text = JsonStringify(reviews)
            ELSE reviews = <<>>)
    /\ [][op' = "mount" => reviews' = reviews]_vars

\* the page has been reloaded after two reviews were submitted, one of them
\* with a comment that needs escape sequences
C20_Witness ==
    /\ op = "mount"
    /\ Len(reviews) = 2
    /\ \E k \in DOMAIN reviews : "\"" \in Range(reviews[k].comment)
    /\ \E k \in DOMAIN reviews : reviews[k].comment = <<>>
    /\ reviews[1].timestamp # reviews[2].timestamp

\* C23: every time the review modal goes from closed to open, the review
\* target is a place whose Rate control was used, the in-progress rating is 5
\* and the comment is empty; cancelling only closes the modal; and a review
\* that is submitted holds the rating and comment of the session it is
\* submitted in, never those left behind by a cancelled session.
C23_ModalSession ==
    /\ [][(~reviewModalOpen /\ reviewModalOpen') =>
            /\ op' = "openReviewModal"
            /\ \E place \in Places :
                  selectedRestaurant' = [title |-> place.title, uri |-> place.uri]
            /\ newRating' = 5
            /\ newComment' = <<>>]_vars
    /\ [][op' = "closeReviewModal" =>
            /\ ~reviewModalOpen'
            /\ UNCHANGED <<reviews, selectedRestaurant, newRating, newComment,
                           stored>>]_vars
    /\ [][op' \in {"setNewRating", "setNewComment"} => reviewModalOpen]_vars
    /\ [][(op' = "handleReviewSubmit" /\ reviews' # reviews) =>
            /\ reviewModalOpen
            /\ reviews'[Len(reviews')].rating = newRating
            /\ reviews'[Len(reviews')].comment = newComment]_vars

\* a session in which a rating and a comment were entered has been
\* cancelled: the modal is closed, nothing was submitted, and the values
\* entered are still in the state
C23_Witness ==
    /\ op = "closeReviewModal"
    /\ ~reviewModalOpen
    /\ reviews = <<>>
    /\ selectedRestaurant # Null
    /\ newRating = 3
    /\ newComment # <<>>

\* C29: whenever the review modal is open a review target is set, so a
\* submit from the modal never takes the no-target branch: every submit
\* appends one review whose restaurantTitle is the title of the place the
\* modal was last opened for and whose rating is an integer in 1..5.
C29_SubmitHasTarget ==
    /\ [](reviewModalOpen => selectedRestaurant # Null)
    /\ [](newRating \in Stars)
    /\ [][selectedRestaurant' # selectedRestaurant =>
            op' \in {"openReviewModal", "mount"}]_vars
    /\ [][op' = "handleReviewSubmit" =>
            /\ reviewModalOpen
            /\ Len(reviews') = Len(reviews) + 1
            /\ reviews'[Len(reviews')].restaurantTitle = selectedRestaurant.title
            /\ reviews'[Len(reviews')].rating \in Stars]_vars

\* a review for the second place, with the rating chosen in the modal, was
\* submitted after a review for the first place
C29_Witness ==
    /\ op = "handleReviewSubmit"
    /\ ~reviewModalOpen
    /\ Len(reviews) = 2
    /\ reviews[1].restaurantTitle = <<"A">>
    /\ reviews[2].restaurantTitle = <<"B">>
    /\ selectedRestaurant # Null
    /\ selectedRestaurant.title = <<"B">>
    /\ reviews[2].rating = 3

(* ----------------------- claims: the search prompt -------------------- *)

\* the first position of a token in a text, 0 when it does not occur
IndexOf(text, token) ==
    IF \E i \in 1..Len(text) : text[i] = token
      THEN CHOOSE i \in 1..Len(text) :
              text[i] = token /\ \A j \in 1..(i - 1) : text[j] # token
      ELSE 0

\* the tokens of a text from a clause opening up to the next clause end
ClauseBody(text, opening) ==
    LET from == IndexOf(text, opening)
        to == CHOOSE i \in (from + 1)..Len(text) :
                 text[i] = ClauseEnd /\ \A j \in (from + 1)..(i - 1) : text[j] # ClauseEnd
    IN SubSeq(text, from + 1, to - 1)

\* the values of a list one after the other with ", " between them
CommaSeparated(body, list) ==
    /\ Len(body) = IF list = <<>> THEN 0 ELSE 2 * Len(list) - 1
    /\ \A i \in 1..Len(body) :
          body[i] = IF i % 2 = 1 THEN list[(i + 1) \div 2] ELSE ", "

\* the prompt names the filters of one search as C26 says
NamesActiveFilters(text, c, p, d, a, dish) ==
    /\ text[1] = PromptHead
    /\ IF c = "Any Cuisine"
         THEN text[2] = PromptPlace /\ IndexOf(text, "Any Cuisine") = 0
         ELSE text[2] = c /\ text[3] = PromptPlace
    /\ LET at == IndexOf(text, PromptPlace) IN
          /\ text[at + 2] = PromptPrice
          /\ IF p = "Any Price"
               THEN /\ text[at + 1] = "any"
                    /\ \A tier \in PriceRange : IndexOf(text, tier) = 0
               ELSE text[at + 1] = p
    /\ (IndexOf(text, DietaryClause) # 0) <=> (d # <<>>)
    /\ (IndexOf(text, AmenitiesClause) # 0) <=> (a # <<>>)
    /\ (IndexOf(text, DishClause) # 0) <=> (dish # <<>>)
    /\ d # <<>> => CommaSeparated(ClauseBody(text, DietaryClause), d)
    /\ a # <<>> => CommaSeparated(ClauseBody(text, AmenitiesClause), a)
    /\ dish # <<>> =>
          SubSeq(text, IndexOf(text, DishClause) + 1, Len(text) - 2) = dish
    /\ (d # <<>> /\ a # <<>>) =>
          IndexOf(text, DietaryClause) < IndexOf(text, AmenitiesClause)
    /\ (d # <<>> /\ dish # <<>>) =>
          IndexOf(text, DietaryClause) < IndexOf(text, DishClause)
    /\ (a # <<>> /\ dish # <<>>) =>
          IndexOf(text, AmenitiesClause) < IndexOf(text, DishClause)
    /\ IndexOf(text, PromptPrice) < IndexOf(text, ClauseEnd)
         \/ IndexOf(text, ClauseEnd) = 0
    /\ text[Len(text)] = PromptTail

\* C26: the prompt built by findRestaurants names a filter exactly when the
\* filter is active: the cuisine value appears iff the cuisine is not
\* "Any Cuisine", a price tier appears iff the price is not "Any Price", and
\* the dietary, amenities and dish clauses each appear iff their input is not
\* empty, always in the order dietary, amenities, dish, the values of a list
\* separated by commas in the order they were selected.
C26_PromptNamesActiveFilters ==
    /\ Len(prompts) = Len(searchCalls)
    /\ \A i \in 1..Len(prompts) :
          NamesActiveFilters(prompts[i], cuisine, price, dietary, amenities,
                             customDish)

\* a search was made for two dietary options, one amenity and a dish, with
\* no cuisine and no price selected
C26_Witness ==
    /\ op = "handleSearch"
    /\ Len(prompts) = 1
    /\ cuisine = "Any Cuisine"
    /\ price = "Any Price"
    /\ dietary = <<"Vegan", "Gluten-Free">>
    /\ amenities = <<"Wi-Fi">>
    /\ customDish = <<"R", "a", "m", "e", "n">>
    /\ prompts[1] =
          <<PromptHead, PromptPlace, "any", PromptPrice,
            DietaryClause, "Vegan", ", ", "Gluten-Free", ClauseEnd,
            AmenitiesClause, "Wi-Fi", ClauseEnd,
            DishClause, "R", "a", "m", "e", "n", ClauseEnd, PromptTail>>

(* ------------------------ claims: the place cards --------------------- *)

\* the positions of the chunks that have a maps field
WithMaps(chunks) == {i \in 1..Len(chunks) : "maps" \in DOMAIN chunks[i]}

\* C25: for every result, the place cards are exactly the grounding chunks
\* whose maps field is present, one card per such chunk, in the provider's
\* order; a chunk without maps gives no card, and an empty chunk list gives
\* no cards while the AI text is still shown.
C25_CardsAreMapsChunks ==
    /\ result = Null => (PlaceCards = <<>> /\ ~SummaryShown)
    /\ result # Null =>
          LET chunks == result.groundingChunks IN
             /\ SummaryShown
             /\ result.text # ""
             /\ Len(PlaceCards) = Cardinality(WithMaps(chunks))
             /\ \A i \in WithMaps(chunks) :
                   LET card == PlaceCards[Cardinality({j \in WithMaps(chunks) : j <= i})]
                   IN /\ card.title = chunks[i].maps.title
                      /\ card.uri = chunks[i].maps.uri
                      /\ card.key = i - 1

\* a result with three chunks of which the second has no maps field is shown
\* as two cards
C25_Witness ==
    /\ op = "searchResolved"
    /\ result # Null
    /\ Len(result.groundingChunks) = 3
    /\ WithMaps(result.groundingChunks) = {1, 3}
    /\ Len(PlaceCards) = 2
    /\ PlaceCards[1].title = <<"B">>
    /\ PlaceCards[2].title = <<"A">>

(* --------------------- claims: the aggregate rating ------------------- *)

\* the titles an aggregate rating is asked for
StatTitles == {<<"A">>, <<"B">>, <<"C">>, <<"a">>}

\* the positions of the reviews of a title
Matching(title) ==
    {i \in 1..Len(reviews) : reviews[i].restaurantTitle = title}

RECURSIVE RatingsAt(_)
RatingsAt(positions) ==
    IF positions = {} THEN 0
    ELSE LET i == CHOOSE j \in positions : TRUE
         IN reviews[i].rating + RatingsAt(positions \ {i})

\* the text is the mean sum / count written with one decimal: the tenths
\* nearest to the mean, the larger of two equally near
OneDecimalOfMean(text, sum, count) ==
    \E whole \in 0..5, tenth \in 0..9 :
        /\ text = <<Digits[whole + 1], ".", Digits[tenth + 1]>>
        /\ (2 * (10 * whole + tenth) - 1) * count <= 20 * sum
        /\ 20 * sum < (2 * (10 * whole + tenth) + 1) * count

\* C24: for every review list and every title, the aggregate rating is null
\* exactly when no review has the title as restaurantTitle by exact match;
\* otherwise its count is the number of the matching reviews and its average
\* is the mean of their ratings written with one decimal, whatever the
\* reviews of other titles are.
C24_AggregateRating ==
    \A title \in StatTitles :
        LET stats == getRestaurantStats(title) IN
           IF Matching(title) = {} THEN stats = Null
           ELSE /\ stats # Null
                /\ stats.count = Cardinality(Matching(title))
                /\ OneDecimalOfMean(stats.average, RatingsAt(Matching(title)),
                                    Cardinality(Matching(title)))

\* the loaded list holds ratings 4 and 5 for "A" around a rating 1 for "B":
\* "A" has average "4.5" and count 2, "C" has no rating
C24_Witness ==
    /\ op = "mount"
    /\ Len(reviews) = 3
    /\ reviews[1].restaurantTitle = <<"A">> /\ reviews[1].rating = 4
    /\ reviews[2].restaurantTitle = <<"B">> /\ reviews[2].rating = 1
    /\ reviews[3].restaurantTitle = <<"A">> /\ reviews[3].rating = 5
    /\ getRestaurantStats(<<"A">>) = [average |-> <<"4", ".", "5">>, count |-> 2]
    /\ getRestaurantStats(<<"B">>) = [average |-> <<"1", ".", "0">>, count |-> 1]
    /\ getRestaurantStats(<<"C">>) = Null

(* ------------------------- claims: two instances ---------------------- *)

\* C21: two instances that share localStorage do not coordinate their
\* writes and the last writer wins: after a submit the stored list is the
\* in-memory list of the instance that submitted; an instance's list is
\* loaded at its mount and not when the user comes back to it, so the stored
\* list can omit a review the other instance wrote in between.
C21_LastWriterWins ==
    /\ [][op' = "handleReviewSubmit" =>
            /\ stored'.present
            /\ stored'.text = JsonStringify(reviews')
            /\ otherTab' = otherTab]_vars
    /\ [][op' = "switchTab" =>
            /\ stored' = stored
            /\ otherTab'.reviews = reviews
            /\ reviews' = IF otherTab.opened THEN otherTab.reviews
                          ELSE LoadReviews(stored)]_vars
    /\ [](stored.present =>
            \/ stored.text = JsonStringify(reviews)
            \/ otherTab.opened /\ stored.text = JsonStringify(otherTab.reviews))

\* both instances were mounted on the empty storage, the other instance
\* submitted a review for "A", then this instance one for "B": the stored
\* list holds the review for "B" only
C21_Witness ==
    /\ op = "handleReviewSubmit"
    /\ otherTab.opened
    /\ Len(otherTab.reviews) = 1
    /\ otherTab.reviews[1].restaurantTitle = <<"A">>
    /\ Len(reviews) = 1
    /\ reviews[1].restaurantTitle = <<"B">>
    /\ stored.text = JsonStringify(reviews)
    /\ LoadReviews(stored) = reviews

(* ---------------------- claims: loading the reviews ------------------- *)

\* the text is the stored form of a list of reviews
IsReviewListText(text) == \E list \in SavedLists : text = JsonStringify(list)

\* C22: loading the reviews at mount never fails and always yields a list:
\* when the key is absent, the text does not parse or it parses to something
\* other than a list of reviews, the review list is empty, and only a stored
\* valid review list is loaded as it is.
C22_Original ==
    [][op' = "mount" =>
         IF stored.present /\ IsReviewListText(stored.text)
           THEN stored'.text = JsonStringify(reviews')
           ELSE reviews' = <<>>]_vars

====
